---- MODULE Spec2Model ----
(***************************************************************************)
(* CustomVMImageHost (src/daemon/custom_image_host.cpp): the manifest      *)
(* build with one std::async task per catalog entry, the mutex-guarded     *)
(* manifest cache custom_image_info, and the queries that read it.         *)
(*                                                                         *)
(* Threads of the model: one thread calling fetch_manifests() (with the    *)
(* worker tasks it launches), one thread calling clear(), one thread       *)
(* calling the queries.                                                    *)
(*                                                                         *)
(* Text is modelled at token granularity: a QString that the code splits   *)
(* or searches is a sequence of tokens ("\n", " " and words), every other  *)
(* QString is a TLA+ string.                                               *)
(***************************************************************************)
EXTENDS Integers, Sequences, FiniteSets, TLC

\* How many entries of the x86_64 catalog (in key order) the model builds.
NumEntries == 2

no_remote == ""

(***************************************************************************)
(* The static catalog.                                                     *)
(***************************************************************************)

\* QMap keeps its keys sorted; the keys of the catalog in QString order.
FileOrder ==
    << "ubuntu-core-16-amd64.img.xz", "ubuntu-core-18-amd64.img.xz",
       "ubuntu-core-20-amd64.img.xz", "ubuntu-core-22-amd64.img.xz" >>

FileRank(f) == CHOOSE i \in 1..Len(FileOrder) : FileOrder[i] = f

CustomImageInfo(prefix, aliases, os, release, release_string) ==
    [url_prefix |-> prefix, aliases |-> aliases, os |-> os,
     release |-> release, release_string |-> release_string]

\* multipass_image_info[arch]: filename -> CustomImageInfo, as a set of
\* (key, value) pairs; an architecture without catalog yields the empty map.
multipass_image_info(a) ==
    IF a = "x86_64"
    THEN { p \in
           { << "ubuntu-core-16-amd64.img.xz",
                CustomImageInfo("https://cdimage.ubuntu.com/ubuntu-core/16/stable/current/",
                                << "core", "core16" >>, "Ubuntu", "core-16", "Core 16") >>,
             << "ubuntu-core-18-amd64.img.xz",
                CustomImageInfo("https://cdimage.ubuntu.com/ubuntu-core/18/stable/current/",
                                << "core18" >>, "Ubuntu", "core-18", "Core 18") >>,
             << "ubuntu-core-20-amd64.img.xz",
                CustomImageInfo("https://cdimage.ubuntu.com/ubuntu-core/20/stable/current/",
                                << "core20" >>, "Ubuntu", "core-20", "Core 20") >>,
             << "ubuntu-core-22-amd64.img.xz",
                CustomImageInfo("https://cdimage.ubuntu.com/ubuntu-core/22/stable/current/",
                                << "core22" >>, "Ubuntu", "core-22", "Core 22") >> } :
           FileRank(p[1]) <= NumEntries }
    ELSE {}

\* A catalog in which two entries declare the same alias ("core").
SharedAliasCatalog ==
    { << "ubuntu-core-16-amd64.img.xz",
         CustomImageInfo("https://cdimage.ubuntu.com/ubuntu-core/16/stable/current/",
                         << "core", "core16" >>, "Ubuntu", "core-16", "Core 16") >>,
      << "ubuntu-core-18-amd64.img.xz",
         CustomImageInfo("https://cdimage.ubuntu.com/ubuntu-core/18/stable/current/",
                         << "core18", "core" >>, "Ubuntu", "core-18", "Core 18") >> }

\* custom_image_info.toStdMap(): the pairs of a catalog in ascending key
\* order, as a sequence.
RECURSIVE toStdMap(_)
toStdMap(m) ==
    IF m = {} THEN << >>
    ELSE LET first == CHOOSE p \in m : \A q \in m : FileRank(p[1]) <= FileRank(q[1])
         IN  << first >> \o toStdMap(m \ {first})

(***************************************************************************)
(* VMImageInfo                                                             *)
(***************************************************************************)

VMImageInfo(aliases, os, release, release_title, supported, image_location,
            id, stream_location, version, size, verify) ==
    [aliases |-> aliases, os |-> os, release |-> release,
     release_title |-> release_title, supported |-> supported,
     image_location |-> image_location, id |-> id,
     stream_location |-> stream_location, version |-> version,
     size |-> size, verify |-> verify]

\* mp::VMImageInfo{}
DefaultVMImageInfo ==
    VMImageInfo(<< >>, "", "", "", FALSE, "", "", "", "", 0, FALSE)

is_default_constructed(image_info) == image_info = DefaultVMImageInfo

(***************************************************************************)
(* Text helpers (QString operations on token sequences)                    *)
(***************************************************************************)

Whitespace == { " ", "\n", "\t", "\r" }

\* QString::split(sep), empty parts kept.
RECURSIVE split(_, _)
split(s, sep) ==
    IF \E i \in 1..Len(s) : s[i] = sep
    THEN LET i == CHOOSE k \in 1..Len(s) :
                      s[k] = sep /\ \A j \in 1..(k - 1) : s[j] # sep
         IN  << SubSeq(s, 1, i - 1) >> \o split(SubSeq(s, i + 1, Len(s)), sep)
    ELSE << s >>

\* QString::trimmed()
RECURSIVE trimmed(_)
trimmed(s) ==
    IF s = << >> THEN s
    ELSE IF Head(s) \in Whitespace THEN trimmed(Tail(s))
    ELSE IF s[Len(s)] \in Whitespace THEN trimmed(SubSeq(s, 1, Len(s) - 1))
    ELSE s

\* QString::endsWith(word), for a one-token word.
endsWith(s, word) == Len(s) > 0 /\ s[Len(s)] = word

\* The tokens of a QString joined into one string.
RECURSIVE toQString(_)
toQString(s) == IF s = << >> THEN "" ELSE Head(s) \o toQString(Tail(s))

(***************************************************************************)
(* The downloader (mp::URLDownloader): what its two operations may answer. *)
(***************************************************************************)

DownloadException == "DownloadException"
UnsupportedRemoteException == "UnsupportedRemoteException"

\* QDateTime values last_modified() may return.
Timestamps ==
    { [yyyyMMdd |-> "20240101", hhmmss |-> "000000"],
      [yyyyMMdd |-> "20240101", hhmmss |-> "235959"] }

\* QLocale::c().toString(t, "yyyyMMdd")
toStringDate(t) == t.yyyyMMdd

\* SHA256SUMS texts download() may return: one line per artifact,
\* "<hash> *<filename>"; a listing with trailing whitespace; a listing
\* without the lines of the core 16 and core 18 images.
ChecksumListings ==
    { << "aa16", " ", "*", "ubuntu-core-16-amd64.img.xz", "\n",
         "bb18", " ", "*", "ubuntu-core-18-amd64.img.xz", "\n",
         "cc20", " ", "*", "ubuntu-core-20-amd64.img.xz", "\n",
         "dd22", " ", "*", "ubuntu-core-22-amd64.img.xz", "\n" >>,
      << "aa16", " ", "*", "ubuntu-core-16-amd64.img.xz", " ", "\r", "\n",
         "bb18", " ", "*", "ubuntu-core-18-amd64.img.xz", " ", "\r", "\n",
         "cc20", " ", "*", "ubuntu-core-20-amd64.img.xz", " ", "\r", "\n",
         "dd22", " ", "*", "ubuntu-core-22-amd64.img.xz", " ", "\r", "\n" >>,
      << "ee00", " ", "*", "ubuntu-core-16-amd64.manifest", "\n",
         "cc20", " ", "*", "ubuntu-core-20-amd64.img.xz", "\n",
         "dd22", " ", "*", "ubuntu-core-22-amd64.img.xz", "\n" >> }

(***************************************************************************)
(* Platform predicates (CommonVMImageHost / MP_PLATFORM)                   *)
(***************************************************************************)

\* Remote names a caller may pass.
Remotes == { no_remote, "daily" }

\* What the platform may support.
Platforms ==
    [ remotes : { Remotes, { "daily" } },
      unsupported_aliases : { {}, { "core18" } } ]

is_remote_supported(p, remote_name) == remote_name \in p.remotes

is_alias_supported(p, alias, remote_name) == alias \notin p.unsupported_aliases

\* check_remote_is_supported(remote) does not throw
check_remote_is_supported(p, remote_name) == is_remote_supported(p, remote_name)

\* check_alias_is_supported(alias, remote) does not throw
check_alias_is_supported(p, alias, remote_name) ==
    is_alias_supported(p, alias, remote_name)

alias_verifies_image_is_supported(p, aliases, remote_name) ==
    \/ aliases = << >>
    \/ \E k \in 1..Len(aliases) : is_alias_supported(p, aliases[k], remote_name)

(***************************************************************************)
(* Metadata fetcher and alias index                                        *)
(***************************************************************************)

\* The loop of base_image_info_for over the lines of SHA256SUMS.
RECURSIVE hash_of(_, _)
hash_of(sha256_sums, image_file) ==
    IF sha256_sums = << >> THEN ""
    ELSE IF endsWith(trimmed(Head(sha256_sums)), image_file)
         THEN toQString(Head(split(Head(sha256_sums), " ")))
         ELSE hash_of(Tail(sha256_sums), image_file)

\* The search of base_image_info_for, tabulated for every listing the
\* downloader may answer and every artifact of the catalog.
HashTable ==
    [sums_text \in ChecksumListings |->
        [k \in 1..Len(FileOrder) |-> hash_of(split(sums_text, "\n"), FileOrder[k])]]

\* base_image_info_for from its second call on: last_modified is the
\* formatted answer of the first call, sums_text what download() returned.
base_image_info_for(last_modified, sums_text, image_file) ==
    [last_modified |-> last_modified,
     hash |-> HashTable[sums_text][FileRank(image_file)]]

EmptyMap == [k \in {} |-> 0]

\* map[key] = ptr
map_assign(map, key, ptr) ==
    [k \in (DOMAIN map) \cup {key} |-> IF k = key THEN ptr ELSE map[k]]

RECURSIVE map_aliases(_, _, _)
map_aliases(map, aliases, ptr) ==
    IF aliases = << >> THEN map
    ELSE map_aliases(map_assign(map, Head(aliases), ptr), Tail(aliases), ptr)

\* (mutant) emplace in place of operator[]: a key keeps its first record
map_keep_first(map, key, ptr) ==
    IF key \in DOMAIN map THEN map ELSE map_assign(map, key, ptr)

RECURSIVE map_aliases_keep_first(_, _, _)
map_aliases_keep_first(map, aliases, ptr) ==
    IF aliases = << >> THEN map
    ELSE map_aliases_keep_first(map_keep_first(map, Head(aliases), ptr),
                                Tail(aliases), ptr)

map_image_keep_first(map, images, i) ==
    IF ~is_default_constructed(images[i])
    THEN map_aliases_keep_first(map_keep_first(map, images[i].id, i),
                                images[i].aliases, i)
    ELSE map

\* (mutant) the record entered under its release name as well
map_image_by_release(map, images, i) ==
    IF ~is_default_constructed(images[i])
    THEN map_assign(map_aliases(map_assign(map, images[i].id, i), images[i].aliases, i),
                    images[i].release, i)
    ELSE map

\* One iteration of the loop of map_aliases_to_vm_info_for: image i.
map_image(map, images, i) ==
    IF ~is_default_constructed(images[i])
    THEN map_aliases(map_assign(map, images[i].id, i), images[i].aliases, i)
    ELSE map

RECURSIVE map_images_from(_, _, _)
map_images_from(map, images, i) ==
    IF i > Len(images) THEN map
    ELSE map_images_from(map_image(map, images, i), images, i + 1)

\* key -> position in images (the const VMImageInfo* into the vector)
map_aliases_to_vm_info_for(images) == map_images_from(EmptyMap, images, 1)

\* The record a worker writes into its slot.
fetched_image_info(image_info_pair, base_image_info) ==
    VMImageInfo(image_info_pair[2].aliases,
                image_info_pair[2].os,
                image_info_pair[2].release,
                image_info_pair[2].release_string,
                TRUE,
                image_info_pair[2].url_prefix \o image_info_pair[1],
                base_image_info.hash,
                "",
                base_image_info.last_modified,
                0,
                TRUE)

CustomManifest(products, image_records) ==
    [products |-> products, image_records |-> image_records]

\* std::unordered_map::emplace: inserts only when the key is absent.
emplace(map, key, value) ==
    IF key \in DOMAIN map THEN map
    ELSE [k \in (DOMAIN map) \cup {key} |-> IF k = key THEN value ELSE map[k]]

(***************************************************************************)
(* State                                                                   *)
(***************************************************************************)

VARIABLES
    catalog,                  \* multipass_image_info[arch], fixed at construction
    platform,                 \* what MP_PLATFORM supports, fixed
    custom_image_info,        \* the cache: remote name -> CustomManifest
    custom_image_info_mutex,  \* "free" or the operation holding it
    pcF,                      \* where fetch_manifests() is
    default_images,           \* full_image_info_for: the slot vector
    task,                     \* full_image_info_for: the std::async tasks
    index,                    \* full_image_info_for: tasks launched
    joined,                   \* full_image_info_for: futures got
    exception,                \* the exception being propagated, or "none"
    custom_manifest,          \* fetch_manifests: the built manifest, or Null
    fetch_outcome,            \* how the last fetch_manifests() call ended
    sink_calls,               \* on_manifest_update_failure calls of that call
    pcQ,                      \* where the query thread is
    query,                    \* the running query and its arguments
    manifest_ptr,             \* the CustomManifest* manifest_from returned
    result,                   \* what the query returned or threw
    fe_pos,                   \* for_each_entry: products passed so far
    visited,                  \* for_each_entry: the visitor's calls so far
    last_stored               \* history: the last manifest inserted, with
                              \* the base infos its workers fetched

vars ==
    << catalog, platform, custom_image_info, custom_image_info_mutex, pcF,
       default_images, task, index, joined, exception, custom_manifest,
       fetch_outcome, sink_calls, pcQ, query, manifest_ptr, result, fe_pos,
       visited, last_stored >>

fetchVars ==
    << pcF, default_images, task, index, joined, exception, custom_manifest,
       fetch_outcome, sink_calls >>

queryVars == << pcQ, query, manifest_ptr, result, fe_pos, visited >>

configVars == << catalog, platform >>

Null == [null |-> TRUE]

\* The catalog entries in the order full_image_info_for visits them.
Entries == toStdMap(catalog)

IdleTask == [st |-> "not_launched", base |-> Null]

NoQuery ==
    [op |-> "none", remote_name |-> no_remote, release |-> "",
     allow_unsupported |-> FALSE]

(***************************************************************************)
(* Initial state: after construction, nothing cached, no call running.     *)
(***************************************************************************)

Archs == { "x86_64", "aarch64" }

InitState ==
    /\ platform \in Platforms
    /\ custom_image_info = EmptyMap
    /\ custom_image_info_mutex = "free"
    /\ pcF = "idle"
    /\ default_images = << >>
    /\ task = << >>
    /\ index = 0
    /\ joined = 0
    /\ exception = "none"
    /\ custom_manifest = Null
    /\ fetch_outcome = "none"
    /\ sink_calls = 0
    /\ pcQ = "idle"
    /\ query = NoQuery
    /\ manifest_ptr = Null
    /\ result = Null
    /\ fe_pos = 0
    /\ visited = << >>
    /\ last_stored = Null

Init ==
    /\ catalog \in { multipass_image_info(a) : a \in Archs }
    /\ InitState

(***************************************************************************)
(* fetch_manifests() and full_image_info_for()                             *)
(***************************************************************************)

\* The process runs until an access faults.
Running == pcQ # "crashed"

\* (mutant) the lock_guard left out: the mutex is never taken
no_lock_guard(holder) == "free"

\* const std::lock_guard<std::mutex> lock{custom_image_info_mutex}: the mutex
\* belongs to `holder` until the guard goes out of scope.
lock_guard(holder) == holder

\* (mutant) a future that never blocks its waiter
future_always_ready(t) == TRUE

\* A std::future is ready once its task has returned or thrown.
future_ready(t) == t.st \in { "done", "failed" }

\* (mutant) futures whose destructor does not wait (not made by std::async)
destructor_never_blocks(t) == TRUE

\* The destructor of a future made by std::async(std::launch::async, ...)
\* returns once its task has finished.
destructor_returns(t) == t.st \in { "done", "failed" }

\* (mutant) wait() in place of get(): the task's exception is dropped
wait_drops_exception(t) == FALSE

\* get() rethrows the exception a task ended with.
get_rethrows(t) == t.st = "failed"

\* default_images[slot] = image (a write to a vector that is gone is lost).
write_slot(images, slot, image) ==
    IF slot \in DOMAIN images THEN [images EXCEPT ![slot] = image] ELSE images

\* (mutant) push_back order: a worker takes the first slot still unwritten
slot_in_completion_order(i, images) ==
    IF \E k \in DOMAIN images : is_default_constructed(images[k])
    THEN CHOOSE k \in DOMAIN images :
             /\ is_default_constructed(images[k])
             /\ \A j \in 1..(k - 1) : ~is_default_constructed(images[j])
    ELSE i

\* (mutant) index captured by reference: a worker writes the slot the launch
\* loop's counter names when the worker gets there
slot_of_shared_index(i, images) == index

\* The slot a worker launched with `index` writes.
slot_of(i, images) == i

\* (mutant) the lock_guard placed at the top of the try block
mutex_taken_at_entry(mutex) == "fetch_manifests"

\* The mutex over the entry of fetch_manifests: the call does not touch it
\* before its store step.
mutex_at_entry(mutex) == mutex

\* Entry of fetch_manifests: check_remote_is_supported(spec.first) returns,
\* and full_image_info_for allocates its slot vector, or throws
\* UnsupportedRemoteException.
FetchBegin ==
    /\ Running
    /\ pcF = "idle"
    /\ sink_calls' = 0
    /\ joined' = 0
    /\ index' = 0
    /\ custom_manifest' = Null
    /\ fetch_outcome' = "running"
    /\ IF check_remote_is_supported(platform, no_remote)
       THEN /\ default_images' = [i \in 1..Len(Entries) |-> DefaultVMImageInfo]
            /\ task' = [i \in 1..Len(Entries) |-> IdleTask]
            /\ pcF' = IF Len(Entries) = 0 THEN "map" ELSE "launch"
            /\ exception' = "none"
       ELSE /\ default_images' = << >>
            /\ task' = << >>
            /\ pcF' = "catch"
            /\ exception' = UnsupportedRemoteException
    /\ custom_image_info_mutex' = mutex_at_entry(custom_image_info_mutex)
    /\ UNCHANGED << configVars, custom_image_info, queryVars, last_stored >>

\* One iteration of the launch loop: std::async(std::launch::async, ...).
LaunchTask ==
    /\ Running
    /\ pcF = "launch"
    /\ index < Len(Entries)
    /\ task' = [task EXCEPT ![index + 1].st = "last_modified"]
    /\ index' = index + 1
    /\ pcF' = IF index + 1 = Len(Entries) THEN "join" ELSE "launch"
    /\ UNCHANGED << configVars, custom_image_info, custom_image_info_mutex,
                    default_images, joined, exception, custom_manifest,
                    fetch_outcome, sink_calls, queryVars, last_stored >>

\* Worker i: url_downloader->last_modified({image_url}).
WorkerLastModified(i) ==
    /\ Running
    /\ i \in DOMAIN task
    /\ task[i].st = "last_modified"
    /\ \/ \E answer \in Timestamps :
             task' = [task EXCEPT ![i] =
                         [st |-> "download",
                          base |-> [last_modified |-> toStringDate(answer)]]]
       \/ \* the call throws DownloadException: the task ends with it
          task' = [task EXCEPT ![i] = [st |-> "failed", base |-> Null]]
    /\ UNCHANGED << configVars, custom_image_info, custom_image_info_mutex,
                    pcF, default_images, index, joined, exception,
                    custom_manifest, fetch_outcome, sink_calls, queryVars,
                    last_stored >>

\* Worker i: url_downloader->download({hash_url}), the search for the hash
\* and the write of default_images[index].
WorkerDownload(i) ==
    /\ Running
    /\ i \in DOMAIN task
    /\ task[i].st = "download"
    /\ \/ \E answer \in ChecksumListings :
             LET base_image_info ==
                     base_image_info_for(task[i].base.last_modified, answer,
                                         Entries[i][1])
             IN  /\ task' = [task EXCEPT ![i] =
                                [st |-> "done", base |-> base_image_info]]
                 /\ default_images' =
                        write_slot(default_images, slot_of(i, default_images),
                                   fetched_image_info(Entries[i], base_image_info))
       \/ \* the call throws DownloadException: the task ends with it
          /\ task' = [task EXCEPT ![i] = [st |-> "failed", base |-> Null]]
          /\ UNCHANGED default_images
    /\ UNCHANGED << configVars, custom_image_info, custom_image_info_mutex,
                    pcF, index, joined, exception, custom_manifest,
                    fetch_outcome, sink_calls, queryVars, last_stored >>

\* One iteration of the join loop: empty_future.get() returns, or rethrows
\* the task's exception.
FutureGet ==
    /\ Running
    /\ pcF = "join"
    /\ joined < Len(Entries)
    /\ future_ready(task[joined + 1])
    /\ IF get_rethrows(task[joined + 1])
       THEN /\ exception' = DownloadException
            /\ pcF' = "unwind"
            /\ UNCHANGED joined
       ELSE /\ joined' = joined + 1
            /\ pcF' = IF joined + 1 = Len(Entries) THEN "map" ELSE "join"
            /\ UNCHANGED exception
    /\ UNCHANGED << configVars, custom_image_info, custom_image_info_mutex,
                    default_images, task, index, custom_manifest,
                    fetch_outcome, sink_calls, queryVars, last_stored >>

\* The exception leaves full_image_info_for: empty_futures is destroyed
\* first (each future of std::async blocks until its task has finished),
\* then default_images.
Unwind ==
    /\ Running
    /\ pcF = "unwind"
    /\ \A i \in DOMAIN task : destructor_returns(task[i])
    /\ task' = << >>
    /\ default_images' = << >>
    /\ pcF' = "catch"
    /\ UNCHANGED << configVars, custom_image_info, custom_image_info_mutex,
                    index, joined, exception, custom_manifest, fetch_outcome,
                    sink_calls, queryVars, last_stored >>

\* (mutant) no handler for DownloadException
handles_unsupported_only(e) == e = UnsupportedRemoteException

\* (mutant) every handler reports to the failure sink
sink_calls_of_any(e) == 1

\* The handlers of fetch_manifests: which exceptions they catch, and how
\* often each calls on_manifest_update_failure.
handles(e) == e \in { DownloadException, UnsupportedRemoteException }

sink_calls_of(e) == IF e = DownloadException THEN 1 ELSE 0

outcome_of(e) ==
    IF e = DownloadException THEN "failed"
    ELSE IF e = UnsupportedRemoteException THEN "skipped"
    ELSE "raised"

\* catch (mp::DownloadException& e) / catch (const UnsupportedRemoteException&);
\* the loop has no further element and the call returns.
Catch ==
    /\ Running
    /\ pcF = "catch"
    /\ sink_calls' = IF handles(exception)
                     THEN sink_calls + sink_calls_of(exception)
                     ELSE sink_calls
    /\ pcF' = IF handles(exception) THEN "idle" ELSE "terminated"
    /\ fetch_outcome' = IF handles(exception) THEN outcome_of(exception) ELSE "raised"
    /\ exception' = "none"
    /\ UNCHANGED << configVars, custom_image_info, custom_image_info_mutex,
                    default_images, task, index, joined, custom_manifest,
                    queryVars, last_stored >>

\* map_aliases_to_vm_info_for(default_images) and the CustomManifest that
\* takes the vector and the map.
BuildManifest ==
    /\ Running
    /\ pcF = "map"
    /\ custom_manifest' =
           CustomManifest(default_images, map_aliases_to_vm_info_for(default_images))
    /\ default_images' = << >>
    /\ pcF' = "lock"
    /\ UNCHANGED << configVars, custom_image_info, custom_image_info_mutex,
                    task, index, joined, exception, fetch_outcome, sink_calls,
                    queryVars, last_stored >>

\* History of the insertions: the manifest inserted, the base infos its
\* workers fetched, whether these repeat those of the insertion before, and
\* whether the manifest equals the one inserted before.
Stored(manifest, base, before) ==
    [manifest |-> manifest, base |-> base,
     same_answers |-> before # Null /\ before.base = base,
     same_manifest |-> before # Null /\ before.manifest = manifest]

\* const std::lock_guard<std::mutex> lock{custom_image_info_mutex};
FetchLock ==
    /\ Running
    /\ pcF = "lock"
    /\ custom_image_info_mutex = "free"
    /\ custom_image_info_mutex' = lock_guard("fetch_manifests")
    /\ pcF' = "emplace"
    /\ UNCHANGED << configVars, custom_image_info, default_images, task, index,
                    joined, exception, custom_manifest, fetch_outcome,
                    sink_calls, queryVars, last_stored >>

\* custom_image_info.emplace(spec.first, std::move(custom_manifest)); the
\* lock_guard and the unique_ptr go out of scope; the call returns.
\* With `recorded` the insertion is entered in the history last_stored.
EmplaceStep(recorded) ==
    /\ Running
    /\ pcF = "emplace"
    /\ custom_image_info' = emplace(custom_image_info, no_remote, custom_manifest)
    /\ last_stored' =
           IF recorded /\ custom_image_info' # custom_image_info
           THEN Stored(custom_image_info'[no_remote],
                       [i \in DOMAIN task |-> task[i].base], last_stored)
           ELSE last_stored
    /\ custom_image_info_mutex' = "free"
    /\ custom_manifest' = Null
    /\ task' = << >>
    /\ pcF' = "idle"
    /\ fetch_outcome' = "completed"
    /\ UNCHANGED << configVars, default_images, index, joined, exception,
                    sink_calls, queryVars >>

Emplace == EmplaceStep(FALSE)

EmplaceRecorded == EmplaceStep(TRUE)

(***************************************************************************)
(* clear()                                                                 *)
(***************************************************************************)

\* The manifests the cache owns are destroyed: the pointer a query still
\* has to read through dangles.
Clear ==
    /\ Running
    /\ custom_image_info_mutex = "free"
    /\ custom_image_info' = EmptyMap
    /\ manifest_ptr' =
           IF pcQ = "read" /\ manifest_ptr.remote_name \in DOMAIN custom_image_info
           THEN [manifest_ptr EXCEPT !.dangling = TRUE]
           ELSE manifest_ptr
    /\ UNCHANGED << configVars, custom_image_info_mutex, fetchVars, pcQ, query,
                    result, fe_pos, visited, last_stored >>

(***************************************************************************)
(* Queries                                                                 *)
(***************************************************************************)

\* Release names a caller may ask info_for for: aliases of the catalog, a
\* hash, a name the catalog does not have.
Releases == { "core", "core18", "aa16", "jammy" }

Query(op, remote_name, release, allow_unsupported) ==
    [op |-> op, remote_name |-> remote_name, release |-> release,
     allow_unsupported |-> allow_unsupported]

Threw(what) == [status |-> what]

\* The query stops with `outcome`.
QueryEnds(outcome) ==
    /\ pcQ' = "done"
    /\ result' = outcome

\* manifest_from up to its lock: check_remote_is_supported(remote_name).
ManifestFromEntry(remote_name) ==
    IF check_remote_is_supported(platform, remote_name)
    THEN /\ pcQ' = "lock"
         /\ result' = Null
    ELSE QueryEnds(Threw(UnsupportedRemoteException))

\* info_for(query): check_alias_is_supported, then the call of manifest_from.
InfoFor(release, remote_name) ==
    /\ pcQ = "idle"
    /\ query' = Query("info_for", remote_name, release, FALSE)
    /\ IF check_alias_is_supported(platform, release, remote_name)
       THEN ManifestFromEntry(remote_name)
       ELSE QueryEnds(Threw("UnsupportedAliasException"))
    /\ UNCHANGED << configVars, custom_image_info, custom_image_info_mutex,
                    fetchVars, manifest_ptr, fe_pos, visited, last_stored >>

\* all_images_for(remote_name, allow_unsupported): the call of manifest_from.
AllImagesFor(remote_name, allow_unsupported) ==
    /\ pcQ = "idle"
    /\ query' = Query("all_images_for", remote_name, "", allow_unsupported)
    /\ ManifestFromEntry(remote_name)
    /\ UNCHANGED << configVars, custom_image_info, custom_image_info_mutex,
                    fetchVars, manifest_ptr, fe_pos, visited, last_stored >>

\* manifest_from(remote_name) called on its own.
ManifestFrom(remote_name) ==
    /\ pcQ = "idle"
    /\ query' = Query("manifest_from", remote_name, "", FALSE)
    /\ ManifestFromEntry(remote_name)
    /\ UNCHANGED << configVars, custom_image_info, custom_image_info_mutex,
                    fetchVars, manifest_ptr, fe_pos, visited, last_stored >>

\* The pointer it->second.get(): the remote whose manifest it points to,
\* the CustomManifest object, and whether that object has been destroyed.
PointerTo(remote_name) ==
    [remote_name |-> remote_name, object |-> custom_image_info[remote_name],
     dangling |-> FALSE]

\* (mutant) an absent remote answered as an empty result
remote_not_found_is_empty(remote_name) == [status |-> "nullopt"]

\* throw std::runtime_error("Remote ... is unknown or unreachable.")
remote_not_found(remote_name) == Threw("unknown or unreachable")

\* manifest_from from its lock_guard to its return: with the mutex taken,
\* find, then throw or return the raw pointer; the mutex is free again when
\* the function is left either way.
ManifestFromFind ==
    /\ pcQ = "lock"
    /\ custom_image_info_mutex = "free"
    /\ IF query.remote_name \notin DOMAIN custom_image_info
       THEN /\ QueryEnds(remote_not_found(query.remote_name))
            /\ UNCHANGED manifest_ptr
       ELSE /\ manifest_ptr' = PointerTo(query.remote_name)
            /\ IF query.op = "manifest_from"
               THEN QueryEnds([status |-> "manifest"])
               ELSE /\ pcQ' = "read"
                    /\ UNCHANGED result
    /\ UNCHANGED << configVars, custom_image_info, custom_image_info_mutex,
                    fetchVars, query, fe_pos, visited, last_stored >>

\* (mutant) a lookup among the record ids only, the aliases left out
find_record_by_id(manifest, release) ==
    IF \E i \in DOMAIN manifest.products : manifest.products[i].id = release
    THEN [status |-> "found",
          image |-> manifest.products[
                        CHOOSE i \in DOMAIN manifest.products :
                            manifest.products[i].id = release]]
    ELSE [status |-> "nullopt"]

\* info_for on the manifest: image_records.find(query.release), *it->second.
find_record(manifest, release) ==
    IF release \in DOMAIN manifest.image_records
    THEN [status |-> "found",
          image |-> manifest.products[manifest.image_records[release]]]
    ELSE [status |-> "nullopt"]

\* std::copy_if(products.begin(), products.end(), back_inserter(images), pred)
RECURSIVE copy_if_supported(_, _, _)
copy_if_supported(products, remote_name, images) ==
    IF products = << >> THEN images
    ELSE copy_if_supported(
             Tail(products), remote_name,
             IF alias_verifies_image_is_supported(platform, Head(products).aliases,
                                                  remote_name)
             THEN Append(images, Head(products))
             ELSE images)

supported_images(manifest, remote_name) ==
    [status |-> "images",
     images |-> copy_if_supported(manifest.products, remote_name, << >>)]

\* What a read through the pointer yields.  Through a dangling pointer the
\* behaviour is undefined: the freed memory may still hold the old manifest,
\* may hold anything else, or the access may fault.
read_through(ptr, op, release) ==
    LET defined == IF op = "info_for"
                   THEN find_record(ptr.object, release)
                   ELSE supported_images(ptr.object, ptr.remote_name)
    IN  IF ptr.dangling
        THEN { defined, [status |-> "garbage"], [status |-> "crash"] }
        ELSE { defined }

\* info_for / all_images_for after manifest_from has returned: the reads of
\* custom_manifest->image_records and custom_manifest->products.
ReadManifest ==
    /\ pcQ = "read"
    /\ \E outcome \in read_through(manifest_ptr, query.op, query.release) :
          /\ result' = outcome
          /\ pcQ' = IF outcome.status = "crash" THEN "crashed" ELSE "done"
    /\ UNCHANGED << configVars, custom_image_info, custom_image_info_mutex,
                    fetchVars, query, manifest_ptr, fe_pos, visited,
                    last_stored >>

\* for_each_entry_do_impl: the lock_guard.
ForEachEntryLock ==
    /\ pcQ = "idle"
    /\ custom_image_info_mutex = "free"
    /\ custom_image_info_mutex' = lock_guard("query")
    /\ query' = Query("for_each_entry", no_remote, "", FALSE)
    /\ pcQ' = "iterate"
    /\ fe_pos' = 0
    /\ visited' = << >>
    /\ UNCHANGED << configVars, custom_image_info, fetchVars, manifest_ptr,
                    result, last_stored >>

\* The (remote, position) pairs the two nested loops pass, in order.
RECURSIVE iteration_order(_)
iteration_order(remotes) ==
    IF remotes = {} THEN << >>
    ELSE LET r == CHOOSE x \in remotes : TRUE
         IN  [k \in 1..Len(custom_image_info[r].products) |->
                 [remote_name |-> r, slot |-> k]]
             \o iteration_order(remotes \ {r})

\* One iteration of the inner loop: the visitor is called for a product
\* whose aliases verify as supported.
ForEachEntryStep ==
    /\ pcQ = "iterate"
    /\ LET order == iteration_order(DOMAIN custom_image_info)
       IN  /\ fe_pos < Len(order)
           /\ LET at == order[fe_pos + 1]
                  info == custom_image_info[at.remote_name].products[at.slot]
              IN  visited' =
                      IF alias_verifies_image_is_supported(platform, info.aliases,
                                                           at.remote_name)
                      THEN Append(visited, at)
                      ELSE visited
    /\ fe_pos' = fe_pos + 1
    /\ UNCHANGED << configVars, custom_image_info, custom_image_info_mutex,
                    fetchVars, pcQ, query, manifest_ptr, result, last_stored >>

\* The loops are over: the lock_guard releases the mutex.
ForEachEntryUnlock ==
    /\ pcQ = "iterate"
    /\ fe_pos = Len(iteration_order(DOMAIN custom_image_info))
    /\ custom_image_info_mutex' = "free"
    /\ QueryEnds([status |-> "iterated"])
    /\ UNCHANGED << configVars, custom_image_info, fetchVars, query,
                    manifest_ptr, fe_pos, visited, last_stored >>

\* The caller has the answer; the query thread is free for the next call.
QueryReturn ==
    /\ pcQ = "done"
    /\ pcQ' = "idle"
    /\ query' = NoQuery
    /\ manifest_ptr' = Null
    /\ result' = Null
    /\ fe_pos' = 0
    /\ visited' = << >>
    /\ UNCHANGED << configVars, custom_image_info, custom_image_info_mutex,
                    fetchVars, last_stored >>

Next ==
    \/ FetchBegin
    \/ LaunchTask
    \/ \E i \in 1..NumEntries : WorkerLastModified(i)
    \/ \E i \in 1..NumEntries : WorkerDownload(i)
    \/ FutureGet
    \/ Unwind
    \/ Catch
    \/ BuildManifest
    \/ FetchLock
    \/ Emplace
    \/ Clear
    \/ \E release \in Releases, remote_name \in Remotes : InfoFor(release, remote_name)
    \/ \E remote_name \in Remotes, allow_unsupported \in BOOLEAN :
          AllImagesFor(remote_name, allow_unsupported)
    \/ \E remote_name \in Remotes : ManifestFrom(remote_name)
    \/ ManifestFromFind
    \/ ReadManifest
    \/ ForEachEntryLock
    \/ ForEachEntryStep
    \/ ForEachEntryUnlock
    \/ QueryReturn

Spec == Init /\ [][Next]_vars

\* The refresh thread and clear() alone, every insertion recorded.
NextRebuild ==
    \/ FetchBegin
    \/ LaunchTask
    \/ \E i \in 1..NumEntries : WorkerLastModified(i)
    \/ \E i \in 1..NumEntries : WorkerDownload(i)
    \/ FutureGet
    \/ Unwind
    \/ Catch
    \/ BuildManifest
    \/ FetchLock
    \/ EmplaceRecorded
    \/ Clear

RebuildSpec == Init /\ [][NextRebuild]_vars

\* The host built over a catalog two of whose entries declare the alias
\* "core": the refresh thread and clear().
InitSharedAlias ==
    /\ catalog = SharedAliasCatalog
    /\ InitState

SharedAliasSpec == InitSharedAlias /\ [][NextRebuild]_vars

\* The steps of fetch_manifests and of its workers that wait for nothing.
BuildStep ==
    \/ LaunchTask
    \/ \E i \in 1..NumEntries : WorkerLastModified(i) \/ WorkerDownload(i)
    \/ FutureGet
    \/ Unwind
    \/ Catch
    \/ BuildManifest
    \/ Emplace

\* Scheduling: every thread that can take a step eventually takes one; the
\* downloader answers every call (a worker in a call leaves it); a thread
\* waiting for the mutex gets it if the mutex is free again and again.
\* Nothing obliges a caller to start a call.
Fairness ==
    /\ WF_vars(BuildStep)
    /\ SF_vars(FetchLock)
    /\ SF_vars(ManifestFromFind)
    /\ WF_vars(ReadManifest \/ ForEachEntryStep \/ ForEachEntryUnlock)

FairSpec == Spec /\ Fairness

(***************************************************************************)
(* Properties                                                              *)
(***************************************************************************)

\* The steps of the thread that runs fetch_manifests (its workers included).
FetchStep ==
    \/ FetchBegin
    \/ LaunchTask
    \/ \E i \in 1..NumEntries : WorkerLastModified(i) \/ WorkerDownload(i)
    \/ FutureGet
    \/ Unwind
    \/ Catch
    \/ BuildManifest
    \/ FetchLock
    \/ Emplace
    \/ EmplaceRecorded

\* The keys record i of a sequence is known by: its id and its aliases.
KeysOf(image) == { image.id } \cup { image.aliases[k] : k \in 1..Len(image.aliases) }

\* Slot i of `manifest` holds the record fetched for catalog entry i.
SlotWritten(manifest, i) ==
    /\ ~is_default_constructed(manifest.products[i])
    /\ manifest.products[i].supported
    /\ manifest.products[i].aliases = Entries[i][2].aliases
    /\ manifest.products[i].image_location = Entries[i][2].url_prefix \o Entries[i][1]

\* One fetched record per catalog entry and an index over the keys of all.
CompleteManifest(manifest) ==
    /\ Len(manifest.products) = Len(Entries)
    /\ \A i \in 1..Len(Entries) : SlotWritten(manifest, i)
    /\ DOMAIN manifest.image_records =
           UNION { KeysOf(manifest.products[i]) : i \in 1..Len(Entries) }

\* C1: whatever the refresh thread and its workers are doing, every manifest
\* in the cache, and every manifest a query has got from manifest_from or
\* iterates in for_each_entry, is complete: one fetched record per catalog
\* entry, no slot unwritten, and an alias index over the keys of all of them.
C1_QueriesSeeCompleteManifests ==
    /\ \A r \in DOMAIN custom_image_info : CompleteManifest(custom_image_info[r])
    /\ manifest_ptr # Null => CompleteManifest(manifest_ptr.object)

\* A query holds a manifest while a build has launched its workers and a slot
\* of that build is still unwritten.
C1_Witness ==
    /\ pcQ = "read"
    /\ ~manifest_ptr.dangling
    /\ pcF = "join"
    /\ \E i \in DOMAIN default_images : is_default_constructed(default_images[i])

\* C2: the refresh thread changes the cache only in a call all of whose
\* metadata fetches have succeeded; a call in which some fetch fails with a
\* download failure therefore leaves the cache as it found it (a stored
\* manifest stays, an absent entry stays absent, nothing partial is stored).
C2_FailedRefreshLeavesCache ==
    [][ FetchStep /\ custom_image_info' # custom_image_info
        => \A i \in 1..Len(Entries) : i \in DOMAIN task /\ task[i].st = "done" ]_vars

\* A refresh has failed and the manifest of an earlier refresh is still cached.
C2_Witness ==
    /\ fetch_outcome = "failed"
    /\ no_remote \in DOMAIN custom_image_info

\* C3 (as claimed): the emplace of a successful fetch_manifests leaves the
\* manifest built by that call in the cache, also over an earlier entry.
C3_RefreshReplacesManifest ==
    [][ Emplace => custom_image_info'[no_remote] = custom_manifest ]_vars

\* C4 (as claimed): info_for and all_images_for read the records and the
\* index only of a manifest the cache still owns.
C4_ReadsOnlyCachedManifests ==
    pcQ \in { "done", "crashed" } /\ query.op \in { "info_for", "all_images_for" }
        /\ manifest_ptr # Null
    => ~manifest_ptr.dangling

\* The support predicate accepts (release, remote).
Accepts(release, remote_name) ==
    /\ is_alias_supported(platform, release, remote_name)
    /\ is_remote_supported(platform, remote_name)

\* The records of `manifest` that have `key` as identifier or alias.
Holders(manifest, key) ==
    { i \in DOMAIN manifest.products : key \in KeysOf(manifest.products[i]) }

\* What C5 says of an info_for that has ended with `res`, having got
\* `manifest` from manifest_from (Null if it got none).
InfoForAnswer(manifest, res) ==
    IF ~Accepts(query.release, query.remote_name)
    THEN res.status \in { "UnsupportedAliasException", UnsupportedRemoteException }
    ELSE manifest # Null
         => IF Holders(manifest.object, query.release) # {}
            THEN /\ res.status = "found"
                 /\ \E i \in Holders(manifest.object, query.release) :
                        res.image = manifest.object.products[i]
            ELSE res.status = "nullopt"

\* C5 (as claimed): an info_for that has ended: a rejected pair ends in
\* 'unsupported' with no record; an accepted pair whose cached manifest has
\* the release as identifier or alias returns a record with that key; an
\* accepted pair whose manifest has no such key returns 'not found'.
C5_InfoForAnswers ==
    pcQ \in { "done", "crashed" } /\ query.op = "info_for"
    => pcQ = "done" /\ InfoForAnswer(manifest_ptr, result)

\* C5, for the calls whose manifest is still cached when they read it.
C5_InfoForAnswersWhileCached ==
    pcQ = "done" /\ query.op = "info_for"
        /\ (manifest_ptr # Null => ~manifest_ptr.dangling)
    => InfoForAnswer(manifest_ptr, result)

\* info_for has read, for the alias "core", a manifest that clear() had
\* destroyed in the meantime.
C5_Witness ==
    /\ pcQ \in { "done", "crashed" }
    /\ query.op = "info_for"
    /\ query.release = "core"
    /\ manifest_ptr # Null
    /\ manifest_ptr.dangling

\* C6 (as claimed): in every cached manifest the index maps the identifier
\* and every alias of every record to that record itself.
C6_EveryKeyMapsToItsRecord ==
    \A r \in DOMAIN custom_image_info :
        LET m == custom_image_info[r]
        IN  \A i \in DOMAIN m.products :
                \A key \in KeysOf(m.products[i]) :
                    key \in DOMAIN m.image_records /\ m.image_records[key] = i

\* The last record of `manifest` that has `key` as identifier or alias.
LastHolder(manifest, key) ==
    CHOOSE i \in Holders(manifest, key) : \A j \in Holders(manifest, key) : j <= i

\* C6 (amended): in every cached manifest the index maps the identifier and
\* every alias of every record to the last record of the sequence that has
\* that string as identifier or alias: to the record itself when no later
\* record shares the string, so that all keys of a record that no later record
\* shares resolve to that one record.
C6_KeyMapsToLastHolder ==
    \A r \in DOMAIN custom_image_info :
        LET m == custom_image_info[r]
        IN  \A i \in DOMAIN m.products :
                \A key \in KeysOf(m.products[i]) :
                    /\ key \in DOMAIN m.image_records
                    /\ m.image_records[key] = LastHolder(m, key)
                    /\ (\A j \in Holders(m, key) : j <= i) => m.image_records[key] = i

\* A cached manifest with two records that share a key (both hashes empty),
\* and with a record two of whose keys are its own alone.
C6_Witness ==
    /\ no_remote \in DOMAIN custom_image_info
    /\ LET m == custom_image_info[no_remote]
       IN  /\ \E i, j \in DOMAIN m.products :
                  i < j /\ KeysOf(m.products[i]) \cap KeysOf(m.products[j]) # {}
           /\ m.image_records["core"] = 1
           /\ m.image_records["core16"] = 1

\* C7: a download failure is reported by exactly one call of the failure sink
\* in that refresh and is not raised: no exception leaves fetch_manifests, the
\* call is back at its caller with the mutex free, and the next refresh can
\* start; a refresh without download failure never calls the sink.
C7_DownloadFailureReportedOnce ==
    /\ pcF # "terminated"
    /\ fetch_outcome # "raised"
    /\ fetch_outcome = "failed"
       => /\ sink_calls = 1
          /\ pcF = "idle"
          /\ custom_image_info_mutex # "fetch_manifests"
          /\ Running => ENABLED FetchBegin
    /\ fetch_outcome # "failed" => sink_calls = 0

\* A refresh in which every worker failed has ended.
C7_Witness ==
    /\ fetch_outcome = "failed"
    /\ sink_calls = 1
    /\ pcF = "idle"
    /\ Len(Entries) > 1

\* C8: a clear-and-refresh whose workers fetch the same base infos as those
\* of the insertion before stores a manifest equal to the one stored before
\* (same records in the same order, same keys resolving to the same records).
C8_RebuildIsIdempotent ==
    last_stored # Null /\ last_stored.same_answers => last_stored.same_manifest

\* A second insertion with the answers of the first has happened.
C8_Witness ==
    /\ last_stored # Null
    /\ last_stored.same_answers
    /\ Len(last_stored.manifest.products) > 1
    /\ no_remote \in DOMAIN custom_image_info
    /\ custom_image_info[no_remote] = last_stored.manifest

\* A query other than for_each_entry ends without having read a manifest:
\* at its entry checks or at the find of manifest_from.
EndsWithoutManifest ==
    /\ pcQ \in { "idle", "lock" }
    /\ pcQ' = "done"
    /\ query'.op \in { "manifest_from", "info_for", "all_images_for" }

\* C9 (as claimed): manifest_from, info_for and all_images_for for a
\* supported remote without cache entry fail with 'unknown or unreachable'
\* and leave the cache unchanged.
C9_UncachedRemoteIsUnknown ==
    [][ /\ EndsWithoutManifest
        /\ is_remote_supported(platform, query'.remote_name)
        /\ query'.remote_name \notin DOMAIN custom_image_info
        => /\ result'.status = "unknown or unreachable"
           /\ custom_image_info' = custom_image_info ]_vars

\* C9 (amended): manifest_from and all_images_for for a supported remote
\* without cache entry, and info_for for such a remote with a release the
\* alias predicate accepts, fail with 'unknown or unreachable', return no
\* manifest, record or 'not found', and leave the cache unchanged.
C9_UncachedRemoteIsUnknownIfAliasAccepted ==
    [][ /\ EndsWithoutManifest
        /\ is_remote_supported(platform, query'.remote_name)
        /\ query'.remote_name \notin DOMAIN custom_image_info
        /\ query'.op = "info_for"
           => is_alias_supported(platform, query'.release, query'.remote_name)
        => /\ result'.status = "unknown or unreachable"
           /\ manifest_ptr' = Null
           /\ custom_image_info' = custom_image_info ]_vars

\* info_for has failed with 'unknown or unreachable' after a refresh that
\* failed on an empty cache.
C9_Witness ==
    /\ pcQ = "done"
    /\ query.op = "info_for"
    /\ query.remote_name = no_remote
    /\ result.status = "unknown or unreachable"
    /\ fetch_outcome = "failed"
    /\ custom_image_info = EmptyMap

\* C10: when the remote predicate rejects the remote of fetch_manifests, the
\* refresh thread launches no task, never calls the sink, leaves the cache
\* unchanged and returns through the handler of UnsupportedRemoteException;
\* manifest_from and all_images_for for that remote throw
\* UnsupportedRemoteException.
C10_UnsupportedRemoteIsSkipped ==
    [][ ~is_remote_supported(platform, no_remote)
        => /\ FetchStep
              => /\ custom_image_info' = custom_image_info
                 /\ task' = << >>
                 /\ sink_calls' = 0
                 /\ pcF' \in { "catch", "idle" }
                 /\ pcF' = "idle" => fetch_outcome' = "skipped"
           /\ pcQ' = "done" /\ query'.op \in { "manifest_from", "all_images_for" }
                 /\ query'.remote_name = no_remote
              => /\ result'.status = UnsupportedRemoteException
                 /\ manifest_ptr' = Null ]_vars

\* A refresh of the unsupported remote has been skipped and all_images_for
\* for it has thrown.
C10_Witness ==
    /\ ~is_remote_supported(platform, no_remote)
    /\ fetch_outcome = "skipped"
    /\ pcF = "idle"
    /\ pcQ = "done"
    /\ query.op = "all_images_for"
    /\ query.remote_name = no_remote
    /\ result.status = UnsupportedRemoteException

\* The (remote, slot) pairs of the cache whose record's aliases verify as
\* supported.
SupportedPairs ==
    { at \in [remote_name : DOMAIN custom_image_info, slot : 1..NumEntries] :
        /\ at.slot \in DOMAIN custom_image_info[at.remote_name].products
        /\ alias_verifies_image_is_supported(
               platform, custom_image_info[at.remote_name].products[at.slot].aliases,
               at.remote_name) }

\* C11: from the lock of for_each_entry to its unlock the mutex belongs to
\* the query and no step changes the cache (no clear(), no store); when the
\* iteration ends the visitor has been called exactly once for every
\* (remote, record) pair of the cache whose aliases verify as supported, and
\* for no other pair.
C11_ForEachEntryUnderLock ==
    [][ pcQ = "iterate"
        => /\ custom_image_info_mutex = "query"
           /\ custom_image_info' = custom_image_info
           /\ pcQ' = "done"
              => /\ { visited[k] : k \in 1..Len(visited) } = SupportedPairs
                 /\ Len(visited) = Cardinality(SupportedPairs) ]_vars

\* An iteration has ended after visiting one record and passing over
\* another whose alias is not supported.
C11_Witness ==
    /\ pcQ = "done"
    /\ query.op = "for_each_entry"
    /\ Len(visited) = 1
    /\ NumEntries > 1
    /\ pcF = "lock"

\* The aliases of `image` verify as supported for `remote_name`.
VerifiesAsSupported(image, remote_name) ==
    alias_verifies_image_is_supported(platform, image.aliases, remote_name)

\* What C12 says of an all_images_for that has ended with `res`, having got
\* `manifest` from manifest_from: the supported records of the manifest in
\* sequence order, whatever allow_unsupported is, all of them when no alias
\* is unsupported.
AllImagesForAnswer(manifest, res) ==
    /\ res.status = "images"
    /\ res.images = SelectSeq(manifest.object.products,
                              LAMBDA image : VerifiesAsSupported(image, query.remote_name))
    /\ platform.unsupported_aliases = {} => Len(res.images) = Len(Entries)

\* C12 (as claimed): an all_images_for on a cached remote returns the records
\* of the remote's manifest whose aliases verify as supported, in sequence
\* order, the same for both values of allow_unsupported, and n records for an
\* n-entry catalog whose aliases are all supported.
C12_AllImagesForReturnsSupported ==
    pcQ \in { "done", "crashed" } /\ query.op = "all_images_for"
        /\ manifest_ptr # Null
    => pcQ = "done" /\ AllImagesForAnswer(manifest_ptr, result)

\* C12, for the calls whose manifest is still cached when they read it.
C12_AllImagesForWhileCached ==
    pcQ = "done" /\ query.op = "all_images_for"
        /\ manifest_ptr # Null /\ ~manifest_ptr.dangling
    => AllImagesForAnswer(manifest_ptr, result)

\* all_images_for has read the products of a manifest that clear() had
\* destroyed in the meantime.
C12_Witness ==
    /\ pcQ \in { "done", "crashed" }
    /\ query.op = "all_images_for"
    /\ manifest_ptr # Null
    /\ manifest_ptr.dangling

\* The manifest fetch_manifests has built holds a record without hash: the
\* listing its worker downloaded had no line for the artifact.
BuiltWithoutChecksum ==
    /\ custom_manifest # Null
    /\ \E i \in DOMAIN custom_manifest.products : custom_manifest.products[i].id = ""

\* C13 (as claimed): a fetch_manifests call whose downloads succeed and one
\* of whose listings has no line for its artifact completes without calling
\* the failure sink and stores its manifest, in which that artifact's record
\* has the empty identifier.
C13_MissingChecksumIsStored ==
    [][ pcF = "emplace" /\ pcF' = "idle" /\ BuiltWithoutChecksum
        => /\ fetch_outcome' = "completed"
           /\ sink_calls' = 0
           /\ no_remote \in DOMAIN custom_image_info'
           /\ custom_image_info'[no_remote] = custom_manifest ]_vars

\* C13, for the calls that find no entry of the remote in the cache.
C13_MissingChecksumIsStoredIfAbsent ==
    [][ pcF = "emplace" /\ pcF' = "idle" /\ BuiltWithoutChecksum
        => /\ fetch_outcome' = "completed"
           /\ sink_calls' = 0
           /\ no_remote \notin DOMAIN custom_image_info
              => custom_image_info'[no_remote] = custom_manifest ]_vars

\* A refresh has completed and stored a manifest whose first record has no
\* hash while its second has one.
C13_Witness ==
    /\ fetch_outcome = "completed"
    /\ sink_calls = 0
    /\ no_remote \in DOMAIN custom_image_info
    /\ Len(custom_image_info[no_remote].products) > 1
    /\ custom_image_info[no_remote].products[1].id = ""
    /\ custom_image_info[no_remote].products[2].id = "bb18"

\* A worker task that has been launched and has not ended.
WorkerRunning(t) == t.st \in { "last_modified", "download" }

\* C14: the exception of a failed build leaves full_image_info_for for the
\* handler of fetch_manifests only when no worker of the build is running;
\* as long as a worker runs, the slot vector exists in full, the handler has
\* not been entered and the failure sink has not been called.
C14_FailureAfterAllWorkersEnded ==
    [][ /\ pcF = "unwind" /\ pcF' = "catch"
           => \A i \in DOMAIN task : ~WorkerRunning(task[i])
        /\ (\E i \in DOMAIN task' : WorkerRunning(task'[i]))
           => /\ Len(default_images') = Len(Entries)
              /\ pcF' \in { "launch", "join", "unwind" }
              /\ sink_calls' = 0 ]_vars

\* get() has rethrown the failure of the first task while the second task
\* is still running.
C14_Witness ==
    /\ pcF = "unwind"
    /\ exception = DownloadException
    /\ \E i \in DOMAIN task : WorkerRunning(task[i])

\* The catalog entries are visited in ascending filename order.
AscendingFilenames ==
    \A i \in 1..(Len(Entries) - 1) : FileRank(Entries[i][1]) < FileRank(Entries[i + 1][1])

\* C15: the worker of catalog entry i writes slot i and no other slot, a
\* slot is written once only, and the sequence a build hands to its manifest
\* holds in slot i the record of the i-th catalog entry in ascending
\* filename order, in whatever order the workers have run.
C15_WorkersWriteTheirOwnSlots ==
    [][ /\ \A i \in 1..NumEntries :
               WorkerDownload(i)
               => \A k \in DOMAIN default_images :
                      default_images'[k] # default_images[k]
                      => k = i /\ is_default_constructed(default_images[k])
        /\ pcF = "map" /\ pcF' = "lock"
           => /\ AscendingFilenames
              /\ Len(custom_manifest'.products) = Len(Entries)
              /\ \A i \in 1..Len(Entries) : SlotWritten(custom_manifest', i) ]_vars

\* The worker of the second entry has written its slot while the worker of
\* the first entry is still running.
C15_Witness ==
    /\ Len(default_images) > 1
    /\ WorkerRunning(task[1])
    /\ task[2].st = "done"
    /\ is_default_constructed(default_images[1])
    /\ default_images[2].aliases = << "core18" >>

\* Every task of the build has returned and every slot is written.
AllWorkersFinished ==
    /\ \A i \in DOMAIN task : task[i].st = "done"
    /\ \A i \in DOMAIN default_images : ~is_default_constructed(default_images[i])

\* C16: map_aliases_to_vm_info_for runs on a slot vector all of whose workers
\* have returned and all of whose slots are written, and from the moment
\* the join loop is over until the call ends no worker of the build runs.
C16_IndexAfterAllWorkers ==
    [][ /\ pcF = "map" /\ pcF' = "lock"
           => /\ AllWorkersFinished
              /\ Len(default_images) = Len(Entries)
              /\ custom_manifest'.products = default_images
        /\ pcF' \in { "map", "lock", "emplace" }
           => \A i \in DOMAIN task' : task'[i].st = "done" ]_vars

\* The index of a two-record build has been computed.
C16_Witness ==
    /\ pcF = "lock"
    /\ custom_manifest # Null
    /\ Len(custom_manifest.products) > 1
    /\ { "core", "core16", "core18" } \subseteq DOMAIN custom_manifest.image_records

\* Every key of the index of `manifest` refers to a record of its sequence
\* that is not default-constructed and has the key as identifier or alias.
IndexWithinSequence(manifest) ==
    \A key \in DOMAIN manifest.image_records :
        /\ manifest.image_records[key] \in DOMAIN manifest.products
        /\ ~is_default_constructed(manifest.products[manifest.image_records[key]])
        /\ key \in KeysOf(manifest.products[manifest.image_records[key]])

\* C17: in every manifest held in the cache, every key of the alias index
\* refers to a record of that manifest's own sequence, the record is not
\* default-constructed, and the key is its identifier or one of its aliases.
C17_IndexRefersToOwnRecords ==
    \A r \in DOMAIN custom_image_info : IndexWithinSequence(custom_image_info[r])

\* A cached manifest whose index has the keys of two records, one of them
\* without hash.
C17_Witness ==
    /\ no_remote \in DOMAIN custom_image_info
    /\ DOMAIN custom_image_info[no_remote].image_records =
           { "", "core", "core16", "core18", "bb18" }

\* The aliases more than one record of `manifest` declares.
SharedAliases(manifest) ==
    { alias \in UNION { { manifest.products[i].aliases[k] :
                            k \in 1..Len(manifest.products[i].aliases) } :
                        i \in DOMAIN manifest.products } :
        \E i, j \in DOMAIN manifest.products :
            /\ i # j
            /\ \E k \in 1..Len(manifest.products[i].aliases) :
                   manifest.products[i].aliases[k] = alias
            /\ \E k \in 1..Len(manifest.products[j].aliases) :
                   manifest.products[j].aliases[k] = alias }

\* C18: over a catalog two of whose entries declare the same alias, a build
\* fails only when a download fails, and the index of the manifest it builds
\* maps the shared alias to the record in the later slot, the one of the
\* entry with the greater filename.
C18_SharedAliasMapsToLaterSlot ==
    [][ /\ pcF = "join" /\ pcF' = "unwind" => \E i \in DOMAIN task : task[i].st = "failed"
        /\ fetch_outcome' # "raised"
        /\ pcF = "map" /\ pcF' = "lock"
           => /\ SharedAliases(custom_manifest') = { "core" }
              /\ \A alias \in SharedAliases(custom_manifest') :
                     LET slot == custom_manifest'.image_records[alias]
                     IN  /\ slot = LastHolder(custom_manifest', alias)
                         /\ \A i \in Holders(custom_manifest', alias) :
                                FileRank(Entries[i][1]) <= FileRank(Entries[slot][1]) ]_vars

\* A manifest has been built in which "core" is an alias of both records and
\* resolves to the second.
C18_Witness ==
    /\ pcF = "lock"
    /\ custom_manifest # Null
    /\ "core" \in KeysOf(custom_manifest.products[1])
    /\ "core" \in KeysOf(custom_manifest.products[2])
    /\ custom_manifest.image_records["core"] = 2

\* fetch_manifests is back at its caller: it has stored a manifest, called
\* the failure sink, or skipped the remote, and does not hold the mutex.
FetchCompleted ==
    /\ pcF = "idle"
    /\ fetch_outcome \in { "completed", "failed", "skipped" }
    /\ custom_image_info_mutex # "fetch_manifests"

\* C19 (as claimed): every fetch_manifests call that has begun completes,
\* and a query waiting for the mutex in manifest_from gets it.
C19_EveryCallCompletes ==
    /\ (pcF # "idle") ~> FetchCompleted
    /\ (pcQ = "lock") ~> (pcQ # "lock")

\* C19, for the runs in which no read through a dangling pointer faults.
C19_EveryCallCompletesUnlessCrashed ==
    /\ (pcF # "idle") ~> (FetchCompleted \/ pcQ = "crashed")
    /\ (pcQ = "lock") ~> (pcQ # "lock")

\* A read through a dangling pointer has faulted while a fetch_manifests
\* call was waiting for its workers.
C19_Witness ==
    /\ pcQ = "crashed"
    /\ pcF = "join"
    /\ \E i \in DOMAIN task : WorkerRunning(task[i])

\* fetch_manifests is between its entry and its store step.
BuildInProgress == pcF \in { "launch", "join", "unwind", "catch", "map" }

\* C20: fetch_manifests holds the mutex in its store step only, with no
\* worker running; while a build is in progress the build does not hold the
\* mutex, so clear() and a query waiting in manifest_from can proceed unless
\* for_each_entry holds it, and no step of the build changes the cache.
C20_MutexHeldForStoreOnly ==
    [][ /\ custom_image_info_mutex = "fetch_manifests"
           => pcF = "emplace" /\ \A i \in DOMAIN task : ~WorkerRunning(task[i])
        /\ BuildInProgress /\ Running
           => /\ custom_image_info_mutex # "fetch_manifests"
              /\ custom_image_info_mutex = "query" \/ ENABLED Clear
              /\ pcQ = "lock" => custom_image_info_mutex = "query" \/ ENABLED ManifestFromFind
              /\ FetchStep => custom_image_info' = custom_image_info ]_vars

\* While a worker of a build is still running, a query has found the
\* manifest of the refresh before.
C20_Witness ==
    /\ pcF = "join"
    /\ \E i \in DOMAIN task : WorkerRunning(task[i])
    /\ pcQ = "read"
    /\ ~manifest_ptr.dangling
    /\ custom_image_info_mutex = "free"

====
